---- MODULE Spec2Model ----
(***************************************************************************)
(* A model of D4KU/BlenderScripts:                                         *)
(*   src/common/transf.py                   vector / transform helpers     *)
(*   src/ops/remove_empty_vertex_groups.py  RemoveEmptyVertexGroups        *)
(*   src/ops/replace_duplicate_materials.py merge_first_equal_slots        *)
(*                                                                         *)
(* Every function of transf.py is an operator computed the way the code    *)
(* computes it; a call is an action that stores what the call returns in   *)
(* a variable, or the exception it raises in `fault`.  An array is a       *)
(* record [shape, data]: shape is the numpy shape, data the rows.          *)
(***************************************************************************)
EXTENDS Integers, Sequences, FiniteSets, TLC

VARIABLES
    pc,        \* position of the caller: which call is pending / has returned
    fault,     \* "none", or the name of the exception the call raised
    a, b, out, \* complement: the two arguments and the returned array
    argtype,   \* lerp family: the type of the operands (see ArgTypes)
    start, end, alpha, \* lerp family: the three arguments
    ret,       \* lerp family: what the call returned
    back,      \* invlerp(start, end, ret) of a returned lerp
    mat, vecs, \* transforms: the 4x4 matrix and the vector collection
    hvecs,     \* what homog_vecs(vecs) returned
    tvecs,     \* what transf_vecs(mat, vecs) returned
    tpoint,    \* what transf_point(mat, vecs[i]) returned, for each i so far
    tdist,     \* what transf_dist(mat, vecs[i]) returned, for each i so far
    selected_objects, \* RemoveEmptyVertexGroups: context.selected_objects
    threshold, \* RemoveEmptyVertexGroups: the operator's weight threshold
    material_slots, \* merge_first_equal_slots: the names of ob.material_slots
    active_material_index, \* merge_first_equal_slots: ob.active_material_index
    more       \* what the last call of merge_first_equal_slots returned

vars == <<pc, fault, a, b, out, argtype, start, end, alpha, ret, back, mat, vecs, hvecs, tvecs, tpoint, tdist, selected_objects, threshold, material_slots, active_material_index, more>>

opsVars == <<selected_objects, threshold, material_slots, active_material_index, more>>

transfVars == <<mat, vecs, hvecs, tvecs, tpoint, tdist>>

complementVars == <<a, b, out>>

lerpVars == <<argtype, start, end, alpha, ret, back>>

\* The value of a variable that has not been assigned yet.
None == [shape |-> <<>>, data |-> <<>>]

\* The value of a number variable that has not been assigned yet.
Unset == <<0, -1>>

\* The variables of the calls a specification does not make.
ComplementUnused == a = None /\ b = None /\ out = None

LerpUnused == argtype = "" /\ start = Unset /\ end = Unset /\ alpha = Unset /\ ret = Unset /\ back = Unset

TransfUnused == mat = None /\ vecs = None /\ hvecs = None /\ tvecs = None /\ tpoint = <<>> /\ tdist = <<>>

OpsUnused == selected_objects = <<>> /\ threshold = 0 /\ material_slots = <<>> /\ active_material_index = 0 /\ more = FALSE

\* What a call gives back: a value, or an exception.
Return(v) == [fault |-> "none", val |-> v]

Raise(e) == [fault |-> e, val |-> None]

----------------------------------------------------------------------------
(* numpy helpers used by complement                                        *)

\* Largest coordinate in this model's integer arrays.
MaxCoord == 1

\* Largest number of rows of a, and of b, in a call of complement.
MaxRowsA == 2

MaxRowsB == 1

Coords == 0 .. MaxCoord

\* Rows of dimension 2, as in the documented example of complement.
Vec2 == {<<x, y>> : x \in Coords, y \in Coords}

\* The arrays complement is called with: n <= m rows of dimension 2, and the
\* array of the empty list [], whose shape is (0,).
Arrays2(m) == {[shape |-> <<0>>, data |-> <<>>]} \cup UNION {{[shape |-> <<n, 2>>, data |-> d] : d \in [1 .. n -> Vec2]} : n \in 0 .. m}

\* len(x): the length of the first axis.
len(x) == x.shape[1]

SetMax(S) == CHOOSE m \in S : \A x \in S : x <= m

\* x.max(0): the column maxima; ValueError for an array of no rows (a
\* zero-size array has no maximum).
max0(x) == IF len(x) = 0 THEN Raise("ValueError") ELSE Return([k \in 1 .. x.shape[2] |-> SetMax({x.data[i][k] : i \in 1 .. len(x)})])

\* np.maximum(u, v) without the + 1: the largest coordinate gets no index.
MaximumNoPlus1(u, v) == [k \in DOMAIN u |-> IF u[k] >= v[k] THEN u[k] ELSE v[k]]

\* np.maximum(u, v) + 1, element-wise.
MaximumPlus1(u, v) == [k \in DOMAIN u |-> (IF u[k] >= v[k] THEN u[k] ELSE v[k]) + 1]

RECURSIVE ProdFrom(_, _)
\* dims[k] * dims[k+1] * ... : the stride of coordinate k-1 in C order.
ProdFrom(dims, k) == IF k > Len(dims) THEN 1 ELSE dims[k] * ProdFrom(dims, k + 1)

RECURSIVE RavelRow(_, _, _)
RavelRow(row, dims, k) == IF k > Len(dims) THEN 0 ELSE row[k] * ProdFrom(dims, k + 1) + RavelRow(row, dims, k + 1)

\* np.ravel_multi_index(x.T, dims): one flat index per row of x; ValueError
\* (mode='raise') when a coordinate is outside 0 .. dims[k]-1.
ravel_multi_index(x, dims) == IF \E i \in 1 .. len(x) : \E k \in 1 .. Len(dims) : x.data[i][k] < 0 \/ x.data[i][k] >= dims[k] THEN Raise("ValueError") ELSE Return([i \in 1 .. len(x) |-> RavelRow(x.data[i], dims, 1)])

\* np.in1d(u, v): for each element of u, whether it occurs in v.
in1d(u, v) == [i \in 1 .. Len(u) |-> \E j \in 1 .. Len(v) : v[j] = u[i]]

\* The rows whose keep flag is set, in order.
TakeRows(rows, keep) == LET K == {k \in 1 .. Len(rows) : keep[k]} IN [j \in 1 .. Cardinality(K) |-> rows[CHOOSE k \in K : Cardinality({h \in K : h <= k}) = j]]

\* x[~mask]: the rows of x whose mask is False, in order.
IndexNot(x, mask) == LET rows == TakeRows(x.data, [i \in 1 .. Len(mask) |-> ~mask[i]]) IN [shape |-> <<Len(rows), x.shape[2]>>, data |-> rows]

\* complement(a, b), src/common/transf.py:105-131.
complement(x, y) ==
    IF len(y) = 0 THEN Return(x)
    ELSE IF max0(y).fault # "none" THEN max0(y)
    ELSE IF max0(x).fault # "none" THEN max0(x)
    ELSE LET dims == MaximumPlus1(max0(y).val, max0(x).val)
             ia == ravel_multi_index(x, dims)
             ib == ravel_multi_index(y, dims)
         IN  IF ia.fault # "none" THEN ia
             ELSE IF ib.fault # "none" THEN ib
             ELSE Return(IndexNot(x, in1d(ia.val, ib.val)))

----------------------------------------------------------------------------
(* complement: the caller picks two arrays and calls complement once       *)

InitComplement ==
    /\ pc = "complement"
    /\ fault = "none"
    /\ a \in Arrays2(MaxRowsA)
    /\ b \in Arrays2(MaxRowsB)
    /\ out = None
    /\ LerpUnused
    /\ TransfUnused
    /\ OpsUnused

\* out = complement(a, b): out is assigned unless the call raises.
CallComplement ==
    /\ pc = "complement"
    /\ LET r == complement(a, b)
       IN  /\ fault' = r.fault
           /\ out' = IF r.fault = "none" THEN r.val ELSE out
    /\ pc' = "done"
    /\ UNCHANGED <<a, b, lerpVars, transfVars, opsVars>>

NextComplement == CallComplement

SpecComplement == InitComplement /\ [][NextComplement]_vars

C8_EmptyAReturnsEmpty == (pc = "done" /\ len(b) = 0 => fault = "none" /\ out = a) /\ (pc = "done" /\ len(a) = 0 /\ len(b) > 0 => fault = "none" /\ len(out) = 0)

----------------------------------------------------------------------------
(* Numbers of the lerp family.  Python's float and numpy's float64 are     *)
(* binary floating point: every operation returns the exact result         *)
(* rounded to the nearest number with a fixed count of significant bits,   *)
(* ties to even.  A number is <<n, d>>, the fraction n/d in lowest terms   *)
(* with d > 0; <<1, 0>> is inf, <<-1, 0>> is -inf and <<0, 0>> is nan.     *)
(* The exponent range is not bounded: overflow to inf is not modelled.     *)

\* Significant bits of a float (53 in the code's binary64; the model keeps
\* the rounding rule and scales the width down).
Precision == 3

\* Largest magnitude of start and end in this model.
MaxBound == 3

\* alpha ranges over the multiples of 1/2^AlphaBits in [-1, 2].
AlphaBits == 2

Inf == <<1, 0>>

NegInf == <<-1, 0>>

NaN == <<0, 0>>

Abs(n) == IF n < 0 THEN -n ELSE n

RECURSIVE Gcd(_, _)
Gcd(m, n) == IF n = 0 THEN m ELSE Gcd(n, m % n)

RECURSIVE Pow2(_)
Pow2(k) == IF k = 0 THEN 1 ELSE 2 * Pow2(k - 1)

\* The fraction n/d, d > 0, in lowest terms.
Frac(n, d) == LET g == Gcd(Abs(n), d) IN <<n \div g, d \div g>>

RECURSIVE Expo(_, _)
\* The exponent e with 2^(Precision-1) <= (m/d) / 2^e < 2^Precision, m, d > 0.
Expo(m, d) == IF m >= d * Pow2(Precision) THEN Expo(m, 2 * d) + 1 ELSE IF m < d * Pow2(Precision - 1) THEN Expo(2 * m, d) - 1 ELSE 0

\* n/d rounded to the nearest float, ties to even.
Round(n, d) ==
    IF n = 0 THEN <<0, 1>>
    ELSE LET m == Abs(n)
             sgn == IF n < 0 THEN -1 ELSE 1
             e == Expo(m, d)
             num == IF e >= 0 THEN m ELSE m * Pow2(-e)
             den == IF e >= 0 THEN d * Pow2(e) ELSE d
             q == num \div den
             rem == num % den
             r == IF 2 * rem > den \/ (2 * rem = den /\ q % 2 = 1) THEN q + 1 ELSE q
         IN  IF e >= 0 THEN <<sgn * r * Pow2(e), 1>> ELSE Frac(sgn * r, Pow2(-e))

\* Whether x is a float: a finite number that rounding leaves alone.
IsFloat(x) == x[2] > 0 /\ Round(x[1], x[2]) = x

Num(k) == <<k, 1>>

\* x + y, x - y, x * y of finite floats.
fadd(x, y) == Round(x[1] * y[2] + y[1] * x[2], x[2] * y[2])

fsub(x, y) == Round(x[1] * y[2] - y[1] * x[2], x[2] * y[2])

fmul(x, y) == Round(x[1] * y[1], x[2] * y[2])

\* x / y of finite floats, y # 0.
fdiv(x, y) == IF y[1] < 0 THEN Round(-(x[1] * y[2]), x[2] * (-y[1])) ELSE Round(x[1] * y[2], x[2] * y[1])

\* x / 0 in numpy: a warning, and inf, -inf or nan.
DivByZero(x) == IF x[1] > 0 THEN Inf ELSE IF x[1] < 0 THEN NegInf ELSE NaN

\* x < y for numbers other than nan.
Lt(x, y) == x[1] * y[2] < y[1] * x[2]

\* np.clip(x, lo, hi): minimum(maximum(x, lo), hi); nan stays nan.
clip(x, lo, hi) == IF x = NaN THEN NaN ELSE LET m == IF Lt(x, lo) THEN lo ELSE x IN IF Lt(hi, m) THEN hi ELSE m

\* The operand types.  "float": every operand is a Python number.
\* "float64": a numpy scalar or 0-d array is among them, and no array of one
\* or more dimensions.  "ndarray": an array of one or more dimensions is
\* among them; the operations are element-wise and the model follows one
\* element.  The result of the arithmetic has the same type.
ArgTypes == {"float", "float64", "ndarray"}

\* lerp with start and end exchanged.
lerp_swapped(s, e, al) == fadd(fmul(e, fsub(Num(1), al)), fmul(s, al))

\* lerp(start, end, alpha), src/common/transf.py:134-135.
lerp(s, e, al) == fadd(fmul(s, fsub(Num(1), al)), fmul(e, al))

\* invlerp with the division guarded: 0 when start == end.
invlerp_guarded(t, s, e, al) == LET den == fsub(e, s) IN IF den[1] # 0 THEN Return(fdiv(fsub(al, s), den)) ELSE Return(Num(0))

\* invlerp(start, end, alpha), src/common/transf.py:138-139.  Python raises
\* on a division by zero; numpy returns inf or nan.
invlerp(t, s, e, al) ==
    LET den == fsub(e, s)
    IN  IF den[1] # 0 THEN Return(fdiv(fsub(al, s), den))
        ELSE IF t = "float" THEN Raise("ZeroDivisionError")
        ELSE Return(DivByZero(fsub(al, s)))

\* np.clip(out, lo, hi, out=out): out must be an ndarray.
clip_out(t, o, lo, hi) == IF t = "ndarray" THEN Return(clip(o, lo, hi)) ELSE Raise("TypeError")

\* lerpclip(start, end, alpha), src/common/transf.py:142-145.
lerpclip(t, s, e, al) == clip_out(t, lerp(s, e, al), s, e)

\* invlerpclip(start, end, alpha), src/common/transf.py:148-151.
invlerpclip(t, s, e, al) ==
    LET o == invlerp(t, s, e, al)
    IN  IF o.fault # "none" THEN o ELSE clip_out(t, o.val, Num(0), Num(1))

----------------------------------------------------------------------------
(* lerp family: the caller picks the operands and calls one function; a    *)
(* returned lerp is then fed to invlerp.                                   *)

Bounds == {x \in {Num(k) : k \in -MaxBound .. MaxBound} : IsFloat(x)}

Alphas == {x \in {Frac(k, Pow2(AlphaBits)) : k \in -Pow2(AlphaBits) .. 2 * Pow2(AlphaBits)} : IsFloat(x)}

InitLerp ==
    /\ pc = "call"
    /\ fault = "none"
    /\ argtype \in ArgTypes
    /\ start \in Bounds
    /\ end \in Bounds
    /\ alpha \in Alphas
    /\ ret = Unset /\ back = Unset
    /\ ComplementUnused
    /\ TransfUnused
    /\ OpsUnused

\* The caller's `x = f(...)`: x is assigned unless f raises.
Called(f, r) ==
    /\ pc' = f
    /\ fault' = r.fault
    /\ ret' = IF r.fault = "none" THEN r.val ELSE ret
    /\ UNCHANGED <<argtype, start, end, alpha, back, complementVars, transfVars, opsVars>>

CallLerp == pc = "call" /\ Called("lerp", Return(lerp(start, end, alpha)))

CallInvlerp == pc = "call" /\ Called("invlerp", invlerp(argtype, start, end, alpha))

CallLerpclip == pc = "call" /\ Called("lerpclip", lerpclip(argtype, start, end, alpha))

CallInvlerpclip == pc = "call" /\ Called("invlerpclip", invlerpclip(argtype, start, end, alpha))

\* invlerp(start, end, lerp(start, end, alpha)).
CallInvlerpOfLerp ==
    /\ pc = "lerp"
    /\ LET r == invlerp(argtype, start, end, ret)
       IN  /\ fault' = r.fault
           /\ back' = IF r.fault = "none" THEN r.val ELSE back
    /\ pc' = "back"
    /\ UNCHANGED <<argtype, start, end, alpha, ret, complementVars, transfVars, opsVars>>

NextLerp == CallLerp \/ CallInvlerp \/ CallLerpclip \/ CallInvlerpclip \/ CallInvlerpOfLerp

SpecLerp == InitLerp /\ [][NextLerp]_vars

\* Exact fractions, for stating what a result should be.
qadd(x, y) == Frac(x[1] * y[2] + y[1] * x[2], x[2] * y[2])

qsub(x, y) == Frac(x[1] * y[2] - y[1] * x[2], x[2] * y[2])

qmul(x, y) == Frac(x[1] * y[1], x[2] * y[2])

qdiv(x, y) == IF y[1] < 0 THEN Frac(-(x[1] * y[2]), x[2] * (-y[1])) ELSE Frac(x[1] * y[2], x[2] * y[1])

\* No operation of invlerp(s, e, lerp(s, e, al)) rounds: every exact
\* intermediate result is a float.
NoRounding(s, e, al) ==
    LET om == qsub(Num(1), al)
        p1 == qmul(s, om)
        p2 == qmul(e, al)
        l == qadd(p1, p2)
        n == qsub(l, s)
        d == qsub(e, s)
    IN  \A x \in {om, p1, p2, l, n, d, qdiv(n, d)} : IsFloat(x)

\* C2: for start <= end and every alpha, scalar operands included,
\* lerpclip(start, end, alpha) returns, without a fault, lerp(start, end,
\* alpha) clamped into [start, end].
C2_LerpclipClamps == (pc = "lerpclip" /\ ~Lt(end, start)) => (fault = "none" /\ ret = (LET u == lerp(start, end, alpha) IN IF Lt(end, u) THEN end ELSE IF Lt(u, start) THEN start ELSE u))

----------------------------------------------------------------------------
(* Homogeneous coordinates and transforms, over integer arrays: their      *)
(* sums and products are exact.                                            *)

RECURSIVE Dot(_, _, _)
\* u[k]*v[k] + u[k+1]*v[k+1] + ...
Dot(u, v, k) == IF k > Len(u) THEN 0 ELSE u[k] * v[k] + Dot(u, v, k + 1)

\* x.T of a two-dimensional array.
T(x) == [shape |-> <<x.shape[2], x.shape[1]>>, data |-> [j \in 1 .. x.shape[2] |-> [i \in 1 .. x.shape[1] |-> x.data[i][j]]]]

\* x @ y of two-dimensional arrays; ValueError when the shapes do not fit.
matmul(x, y) == IF x.shape[2] # y.shape[1] THEN Raise("ValueError") ELSE Return([shape |-> <<x.shape[1], y.shape[2]>>, data |-> [i \in 1 .. x.shape[1] |-> [j \in 1 .. y.shape[2] |-> Dot(x.data[i], T(y).data[j], 1)]]])

\* x @ v of a two-dimensional array and a vector.
matvec(x, v) == IF x.shape[2] # v.shape[1] THEN Raise("ValueError") ELSE Return([shape |-> <<x.shape[1]>>, data |-> [i \in 1 .. x.shape[1] |-> Dot(x.data[i], v.data, 1)]])

Min(m, n) == IF m <= n THEN m ELSE n

\* x[:, :c]
Cols(x, c) == [shape |-> <<x.shape[1], Min(c, x.shape[2])>>, data |-> [i \in 1 .. x.shape[1] |-> SubSeq(x.data[i], 1, Min(c, x.shape[2]))]]

\* x[:r, :c]
Block(x, r, c) == [shape |-> <<Min(r, x.shape[1]), Min(c, x.shape[2])>>, data |-> [i \in 1 .. Min(r, x.shape[1]) |-> SubSeq(x.data[i], 1, Min(c, x.shape[2]))]]

\* v[:c] of a vector.
Take(v, c) == [shape |-> <<Min(c, v.shape[1])>>, data |-> SubSeq(v.data, 1, Min(c, v.shape[1]))]

\* np.append(v, x) of a vector.
append(v, x) == [shape |-> <<v.shape[1] + 1>>, data |-> Append(v.data, x)]

\* np.ones(shape).
ones(n, m) == [shape |-> <<n, m>>, data |-> [i \in 1 .. n |-> [k \in 1 .. m |-> 1]]]

\* h[:, :-1] = x: h with all columns but the last overwritten by x's.
SetLeadingCols(h, x) == [h EXCEPT !.data = [i \in 1 .. h.shape[1] |-> [k \in 1 .. h.shape[2] |-> IF k < h.shape[2] THEN x.data[i][k] ELSE h.data[i][k]]]]

\* homog_vecs writing the column of ones into its argument (and returning it).
homog_vecs_inplace(x) == LET h == [shape |-> <<x.shape[1], x.shape[2] + 1>>, data |-> [i \in 1 .. x.shape[1] |-> Append(x.data[i], 1)]] IN [arg |-> h, ret |-> h]

\* homog_vecs(vecs), src/common/transf.py:22-45.  arg is the caller's array
\* when the call returns, ret the returned array: the function writes to
\* the new array hvecs only.
homog_vecs_call(x) == [arg |-> x, ret |-> SetLeadingCols(ones(x.shape[1], x.shape[2] + 1), x)]

homog_vecs(x) == homog_vecs_call(x).ret

\* transf_vecs multiplying the rows by mat instead of by its transpose.
transf_vecs_rows(m, x) == LET p == matmul(homog_vecs(x), m) IN IF p.fault # "none" THEN p ELSE Return(Cols(p.val, 3))

\* transf_vecs(mat, vecs), src/common/transf.py:48-64.
transf_vecs(m, x) == LET p == matmul(m, T(homog_vecs(x))) IN IF p.fault # "none" THEN p ELSE Return(Cols(T(p.val), 3))

\* transf_point appending 0 instead of 1.
transf_point_w0(m, point) == LET p == matvec(m, append(point, 0)) IN IF p.fault # "none" THEN p ELSE Return(Take(p.val, 3))

\* transf_point(mat, point), src/common/transf.py:67-83.
transf_point(m, point) == LET p == matvec(m, append(point, 1)) IN IF p.fault # "none" THEN p ELSE Return(Take(p.val, 3))

\* transf_dist(mat, dist), src/common/transf.py:86-102.
transf_dist(m, dist) == matvec(Block(m, 3, 3), dist)

----------------------------------------------------------------------------
(* homog_vecs: the caller picks a collection of N vectors of dimension D   *)
(* and calls homog_vecs once.                                              *)

\* Largest N, D and coordinate of the collections homog_vecs is called with.
MaxN == 2

MaxDim == 2

MaxV == 2

\* The collections of n vectors of dimension d.
ArraysOf(n, d) == {[shape |-> <<n, d>>, data |-> x] : x \in [1 .. n -> [1 .. d -> 0 .. MaxV]]}

InitHomog ==
    /\ pc = "homog_vecs"
    /\ fault = "none"
    /\ \E n \in 0 .. MaxN, d \in 1 .. MaxDim : vecs \in ArraysOf(n, d)
    /\ mat = None /\ hvecs = None /\ tvecs = None /\ tpoint = <<>> /\ tdist = <<>>
    /\ ComplementUnused
    /\ LerpUnused
    /\ OpsUnused

CallHomogVecs ==
    /\ pc = "homog_vecs"
    /\ vecs' = homog_vecs_call(vecs).arg
    /\ hvecs' = homog_vecs_call(vecs).ret
    /\ pc' = "done"
    /\ UNCHANGED <<fault, mat, tvecs, tpoint, tdist, complementVars, lerpVars, opsVars>>

NextHomog == CallHomogVecs

SpecHomog == InitHomog /\ [][NextHomog]_vars

\* C7: for every collection vecs of N vectors of dimension D, the call
\* homog_vecs(vecs) returns an array of N rows and D+1 columns whose first D
\* columns equal vecs and whose last column is all 1, and leaves vecs as it
\* was.
C7_HomogVecsAppendsOnes ==
    [][pc = "homog_vecs" =>
        /\ vecs' = vecs
        /\ hvecs'.shape = <<vecs.shape[1], vecs.shape[2] + 1>>
        /\ Len(hvecs'.data) = vecs.shape[1]
        /\ \A i \in 1 .. vecs.shape[1] :
            /\ Len(hvecs'.data[i]) = vecs.shape[2] + 1
            /\ SubSeq(hvecs'.data[i], 1, vecs.shape[2]) = vecs.data[i]
            /\ hvecs'.data[i][vecs.shape[2] + 1] = 1]_vars

\* C7's case: homog_vecs has returned for two vectors of dimension 2.
C7_Witness == pc = "done" /\ vecs.shape = <<2, 2>> /\ hvecs.shape = <<2, 3>> /\ vecs.data[1] # vecs.data[2]

----------------------------------------------------------------------------
(* Transforms: the caller picks a 4x4 matrix and N 3D vectors, calls       *)
(* transf_vecs on the collection and then transf_point and transf_dist on  *)
(* each vector in turn.                                                    *)

\* Largest coordinate of a translation, and largest N, in this model.
MaxT == 1

MaxVecs == 2

\* Upper-left blocks: identity, a quarter turn about z, a scaling, a shear.
Linear == {<<<<1, 0, 0>>, <<0, 1, 0>>, <<0, 0, 1>>>>, <<<<0, -1, 0>>, <<1, 0, 0>>, <<0, 0, 1>>>>, <<<<2, 0, 0>>, <<0, 1, 0>>, <<0, 0, 3>>>>, <<<<1, 1, 0>>, <<0, 1, 0>>, <<0, 2, 1>>>>}

\* Bottom rows: the affine one, and one that is not (the library does not
\* enforce it).
Bottom == {<<0, 0, 0, 1>>, <<0, 1, 0, 2>>}

\* The 4x4 matrix with upper-left block l, translation column t, bottom row r.
Mat4(l, t, r) == [shape |-> <<4, 4>>, data |-> <<Append(l[1], t[1]), Append(l[2], t[2]), Append(l[3], t[3]), r>>]

Identity3 == <<<<1, 0, 0>>, <<0, 1, 0>>, <<0, 0, 1>>>>

identity_4x4 == Mat4(Identity3, <<0, 0, 0>>, <<0, 0, 0, 1>>)

translate(t) == Mat4(Identity3, t, <<0, 0, 0, 1>>)

Mats == {Mat4(l, t, r) : l \in Linear, t \in [1 .. 3 -> 0 .. MaxT], r \in Bottom}

Points == {<<0, 0, 0>>, <<1, 0, 0>>, <<1, 2, 3>>, <<-1, 0, 2>>}

Arrays3 == UNION {{[shape |-> <<n, 3>>, data |-> x] : x \in [1 .. n -> Points]} : n \in 0 .. MaxVecs}

\* vecs[i], a vector.
Row(x, i) == [shape |-> <<x.shape[2]>>, data |-> x.data[i]]

InitTransf ==
    /\ pc = "transf_vecs"
    /\ fault = "none"
    /\ mat \in Mats
    /\ vecs \in Arrays3
    /\ hvecs = None /\ tvecs = None /\ tpoint = <<>> /\ tdist = <<>>
    /\ ComplementUnused
    /\ LerpUnused
    /\ OpsUnused

CallTransfVecs ==
    /\ pc = "transf_vecs"
    /\ LET r == transf_vecs(mat, vecs)
       IN  /\ fault' = r.fault
           /\ tvecs' = r.val
    /\ pc' = "transf_point"
    /\ UNCHANGED <<mat, vecs, hvecs, tpoint, tdist, complementVars, lerpVars, opsVars>>

\* transf_point on the next vector.
CallTransfPoint ==
    /\ pc = "transf_point"
    /\ Len(tpoint) < len(vecs)
    /\ LET r == transf_point(mat, Row(vecs, Len(tpoint) + 1))
       IN  /\ fault' = r.fault
           /\ tpoint' = Append(tpoint, r.val)
    /\ pc' = "transf_dist"
    /\ UNCHANGED <<mat, vecs, hvecs, tvecs, tdist, complementVars, lerpVars, opsVars>>

\* transf_dist on the same vector.
CallTransfDist ==
    /\ pc = "transf_dist"
    /\ LET r == transf_dist(mat, Row(vecs, Len(tdist) + 1))
       IN  /\ fault' = r.fault
           /\ tdist' = Append(tdist, r.val)
    /\ pc' = "transf_point"
    /\ UNCHANGED <<mat, vecs, hvecs, tvecs, tpoint, complementVars, lerpVars, opsVars>>

\* Every vector is done.
TransfDone ==
    /\ pc = "transf_point"
    /\ Len(tpoint) = len(vecs)
    /\ pc' = "done"
    /\ UNCHANGED <<fault, transfVars, complementVars, lerpVars, opsVars>>

NextTransf == CallTransfVecs \/ CallTransfPoint \/ CallTransfDist \/ TransfDone

SpecTransf == InitTransf /\ [][NextTransf]_vars

\* C5: transf_vecs(mat, vecs) has N rows and 3 columns and its row i equals
\* transf_point(mat, vecs[i]) for every i, in order; so
\* transf_vecs(identity_4x4, vecs) == vecs.
C5_TransfVecsIsRowwiseTransfPoint ==
    pc # "transf_vecs" =>
        /\ fault = "none"
        /\ tvecs.shape = <<len(vecs), 3>>
        /\ Len(tvecs.data) = len(vecs)
        /\ \A i \in 1 .. Len(tpoint) : tpoint[i].shape = <<3>> /\ tvecs.data[i] = tpoint[i].data
        /\ mat = identity_4x4 => tvecs = vecs

\* C5's case: both vectors of a collection went through transf_vecs and
\* transf_point under a matrix that moves them.
C5_Witness == pc = "done" /\ len(vecs) = 2 /\ Len(tpoint) = 2 /\ tvecs.data[1] # vecs.data[1] /\ tvecs.data[1] # tvecs.data[2]

\* C6: transf_point(M, p) == transf_dist(M, p) + (M[0][3], M[1][3], M[2][3]);
\* so transf_point(translate(t), p) == p + t and
\* transf_dist(translate(t), d) == d.
C6_TranslationOnlyInTransfPoint ==
    \A i \in 1 .. Len(tdist) :
        /\ fault = "none"
        /\ tdist[i].shape = <<3>>
        /\ \A k \in 1 .. 3 : tpoint[i].data[k] = tdist[i].data[k] + mat.data[k][4]
        /\ \A t \in [1 .. 3 -> 0 .. MaxT] : mat = translate(t) => (tdist[i].data = vecs.data[i] /\ \A k \in 1 .. 3 : tpoint[i].data[k] = vecs.data[i][k] + t[k])

\* C6's case: transf_point and transf_dist have returned for a vector, under
\* a matrix whose translation column is not zero and whose block is not the
\* identity.
C6_Witness == Len(tdist) = 1 /\ tpoint[1].data # tdist[1].data /\ tdist[1].data # vecs.data[1]

----------------------------------------------------------------------------
(* RemoveEmptyVertexGroups, src/ops/remove_empty_vertex_groups.py.         *)
(* An object is [type, vertex_groups, vertices]: vertex_groups is the      *)
(* sequence of its groups (here their original indices), vertices gives    *)
(* each vertex's v.groups, a sequence of [group, weight] with group an     *)
(* index into vertex_groups, counted from 0.  Weights and the threshold    *)
(* are counted in units of the default threshold, 0.001.                   *)

\* The largest value of numpy.int8.
Int8Max == 127

\* dtype=np.int8: x cast to an 8-bit signed integer.
int8(x) == ((x + Int8Max + 1) % (2 * Int8Max + 2)) - (Int8Max + 1)

\* get_scalars(coll, attr, dtype): the attribute of every element, read
\* into an array of the dtype.
get_scalars_group(groups) == [k \in 1 .. Len(groups) |-> int8(groups[k].group)]

get_scalars_weight(groups) == [k \in 1 .. Len(groups) |-> groups[k].weight]

\* to_remov[gindcs[weights > threshold]] = False, for one vertex.  An index
\* below 0 counts from the end; one outside the array is an IndexError.
\* to_remov is a function on 0 .. n-1.
UnsetFlags(to_remov, n, groups, thr) ==
    LET gindcs == get_scalars_group(groups)
        weights == get_scalars_weight(groups)
        picked == {gindcs[k] : k \in {j \in 1 .. Len(groups) : weights[j] > thr}}
        at == {IF g < 0 THEN g + n ELSE g : g \in picked}
    IN  IF \E g \in at : g < 0 \/ g >= n THEN Raise("IndexError")
        ELSE Return([g \in 0 .. n - 1 |-> IF g \in at THEN FALSE ELSE to_remov[g]])

RECURSIVE VertexLoop(_, _, _, _, _)
\* for v in o.data.vertices, from vertex i on.
VertexLoop(to_remov, n, vertices, thr, i) ==
    IF i > Len(vertices) THEN Return(to_remov)
    ELSE LET r == UnsetFlags(to_remov, n, vertices[i], thr)
         IN  IF r.fault # "none" THEN r ELSE VertexLoop(r.val, n, vertices, thr, i + 1)

\* The body of the loop over the selected objects, lines 38-55.
ExecuteObject(o, thr) ==
    IF o.type # "MESH" THEN Return(o)
    ELSE LET vgs == o.vertex_groups
             n == Len(vgs)
             flags == VertexLoop([g \in 0 .. n - 1 |-> TRUE], n, o.vertices, thr, 1)
         IN  IF flags.fault # "none" THEN flags
             ELSE Return([o EXCEPT !.vertex_groups = TakeRows(vgs, [k \in 1 .. n |-> ~flags.val[k - 1]])])

\* Bounds of the scene: objects selected, groups of a small object, groups
\* beyond Int8Max of a large one, vertices, groups per vertex, weight.
MaxObjects == 1

MaxSmall == 2

MaxOver == 3

MaxVerts == 2

MaxAssigned == 2

MaxWeight == 2

GroupCounts == (1 .. MaxSmall) \cup (Int8Max .. Int8Max + MaxOver)

\* The group indices the vertices of an object with n groups are assigned to.
Assignable(n) == {0, Int8Max, Int8Max + 1, n - 1} \cap (0 .. n - 1)

\* v.groups: at most MaxAssigned groups, each once, in ascending order.
VertexGroupsOf(n) == {g \in UNION {[1 .. k -> [group : Assignable(n), weight : 0 .. MaxWeight]] : k \in 0 .. MaxAssigned} : \A j \in 1 .. Len(g) - 1 : g[j].group < g[j + 1].group}

\* The objects with n vertex groups.
Objects(n) == [type : {"MESH", "LATTICE"}, vertex_groups : {[k \in 1 .. n |-> k - 1]}, vertices : UNION {[1 .. m -> VertexGroupsOf(n)] : m \in 0 .. MaxVerts}]

InitVertexGroups ==
    /\ pc = "execute"
    /\ fault = "none"
    /\ \E k \in 1 .. MaxObjects : selected_objects \in [1 .. k -> UNION {Objects(n) : n \in GroupCounts}]
    /\ threshold \in 0 .. 1
    /\ material_slots = <<>> /\ active_material_index = 0 /\ more = FALSE
    /\ ComplementUnused
    /\ LerpUnused
    /\ TransfUnused

\* RemoveEmptyVertexGroups.execute, lines 36-57.
Execute ==
    /\ pc = "execute"
    /\ LET r == [k \in 1 .. Len(selected_objects) |-> ExecuteObject(selected_objects[k], threshold)]
       IN  IF \E k \in 1 .. Len(r) : r[k].fault # "none"
           THEN /\ fault' = "IndexError"
                /\ UNCHANGED selected_objects
           ELSE /\ selected_objects' = [k \in 1 .. Len(r) |-> r[k].val]
                /\ UNCHANGED fault
    /\ pc' = "FINISHED"
    /\ UNCHANGED <<threshold, material_slots, active_material_index, more, complementVars, lerpVars, transfVars>>

NextVertexGroups == Execute

SpecVertexGroups == InitVertexGroups /\ [][NextVertexGroups]_vars

\* Group g of object o (as it was selected) is used: some vertex has a
\* weight above the threshold in it.
Used(o, g) == \E i \in 1 .. Len(o.vertices) : \E k \in 1 .. Len(o.vertices[i]) : o.vertices[i][k].group = g /\ o.vertices[i][k].weight > threshold

\* C9: execute removes a vertex group of a selected mesh, however many
\* groups it has, iff no vertex has a weight above the threshold in it, and
\* keeps the other groups; objects that are not meshes are left unchanged.
C9_RemovesExactlyTheUnusedGroups ==
    [][pc = "execute" => \A k \in 1 .. Len(selected_objects) :
        LET o == selected_objects[k]
            after == selected_objects'[k]
        IN  /\ fault' = "none"
            /\ o.type # "MESH" => after = o
            /\ o.type = "MESH" => after.vertex_groups = SelectSeq(o.vertex_groups, LAMBDA g : Used(o, g))]_vars

----------------------------------------------------------------------------
(* merge_first_equal_slots, src/ops/replace_duplicate_materials.py, and    *)
(* the loop of execute that calls it.  material_slots holds the names of   *)
(* ob.material_slots; an empty slot has the name "".  Indices count from   *)
(* 0, as in the code.                                                      *)

\* Largest number of material slots of the object.
MaxSlots == 3

SlotNames == {"", "Metal", "Wood"}

\* slotnames.index(name): the first index holding the name.
index(slotnames, name) == (CHOOSE j \in 1 .. Len(slotnames) : slotnames[j] = name /\ \A h \in 1 .. j - 1 : slotnames[h] # name) - 1

\* bpy.ops.object.material_slot_move(): the active slot moves up by one and
\* stays active; nothing moves when it is the first.
material_slot_move(ob) ==
    LET i == ob.active + 1
    IN  IF i <= 1 \/ i > Len(ob.slots) THEN ob
        ELSE [slots |-> [ob.slots EXCEPT ![i - 1] = ob.slots[i], ![i] = ob.slots[i - 1]], active |-> ob.active - 1]

\* bpy.ops.object.material_slot_remove(): the active slot is deleted; the
\* active index stays, or becomes the last slot's.
material_slot_remove(ob) ==
    LET i == ob.active + 1
        rest == SubSeq(ob.slots, 1, i - 1) \o SubSeq(ob.slots, i + 1, Len(ob.slots))
    IN  IF i < 1 \/ i > Len(ob.slots) THEN ob
        ELSE [slots |-> rest, active |-> IF ob.active >= Len(rest) /\ ob.active > 0 THEN ob.active - 1 ELSE ob.active]

RECURSIVE Repeat(_, _)
\* for _ in range(k): material_slot_move()
Repeat(ob, k) == IF k <= 0 THEN ob ELSE Repeat(material_slot_move(ob), k - 1)

\* merge_first_equal_slots making the found slot active, not the current one.
merge_first_equal_slots_first(ob) ==
    LET dup == {i \in 0 .. Len(ob.slots) - 1 : index(ob.slots, ob.slots[i + 1]) < i}
    IN  IF dup = {} THEN [ob |-> ob, ret |-> FALSE]
        ELSE LET i == CHOOSE m \in dup : \A x \in dup : m <= x
                 first == index(ob.slots, ob.slots[i + 1])
             IN  [ob |-> material_slot_remove(Repeat([ob EXCEPT !.active = first], i - first - 1)), ret |-> TRUE]

\* merge_first_equal_slots(ob), lines 87-111.
merge_first_equal_slots(ob) ==
    LET dup == {i \in 0 .. Len(ob.slots) - 1 : index(ob.slots, ob.slots[i + 1]) < i}
    IN  IF dup = {} THEN [ob |-> ob, ret |-> FALSE]
        ELSE LET i == CHOOSE m \in dup : \A x \in dup : m <= x
                 first == index(ob.slots, ob.slots[i + 1])
             IN  [ob |-> material_slot_remove(Repeat([ob EXCEPT !.active = i], i - first - 1)), ret |-> TRUE]

InitSlots ==
    /\ pc = "while"
    /\ fault = "none"
    /\ material_slots \in UNION {[1 .. n -> SlotNames] : n \in 0 .. MaxSlots}
    /\ active_material_index \in 0 .. MaxSlots - 1
    /\ active_material_index < Len(material_slots) \/ active_material_index = 0
    /\ more = FALSE
    /\ selected_objects = <<>> /\ threshold = 0
    /\ ComplementUnused
    /\ LerpUnused
    /\ TransfUnused

\* One turn of `while merge_first_equal_slots(o): pass`, lines 81-82.
MergeCall ==
    /\ pc = "while"
    /\ LET r == merge_first_equal_slots([slots |-> material_slots, active |-> active_material_index])
       IN  /\ material_slots' = r.ob.slots
           /\ active_material_index' = r.ob.active
           /\ more' = r.ret
           /\ pc' = IF r.ret THEN "while" ELSE "FINISHED"
    /\ UNCHANGED <<fault, selected_objects, threshold, complementVars, lerpVars, transfVars>>

NextSlots == MergeCall

\* The loop is sequential code: a call that can be made is made.
SpecSlots == InitSlots /\ [][NextSlots]_vars /\ WF_vars(MergeCall)

Distinct(names) == \A i, j \in 1 .. Len(names) : names[i] = names[j] => i = j

NameSet(names) == {names[i] : i \in 1 .. Len(names)}

RemoveAt(names, i) == SubSeq(names, 1, i - 1) \o SubSeq(names, i + 1, Len(names))

====
